---- MODULE Spec2Model ----
(***************************************************************************)
(* Model of python/memory_patcher.py: a MemoryPatcher (address space) that *)
(* owns an ordered list of Segments, each with a base, a declared size, a  *)
(* writeable flag, a name and a byte buffer (data).  Every method is a     *)
(* pure operator from the state before the call to the state after it and  *)
(* the call's outcome (a returned value or the exception raised).  The     *)
(* program is single-threaded: the caller makes one call at a time, the    *)
(* call runs to completion and leaves its outcome in `last`, and the       *)
(* caller takes the outcome (Return) before it makes the next call.        *)
(***************************************************************************)
EXTENDS Integers, Sequences, FiniteSets, TLC

VARIABLES segments, last

vars == <<segments, last>>

(* ------------------------------ bounds --------------------------------- *)

MaxSegs == 2
MaxBase == 1
MaxSize == 1
MaxByte == 1
MaxLen == 3
MaxData == 2

Min(a, b) == IF a < b THEN a ELSE b
Max(a, b) == IF a > b THEN a ELSE b

SeqsUpTo(S, n) == UNION {[1..k -> S] : k \in 0..n}

Byte == 0..MaxByte
DataSet == SeqsUpTo(Byte, MaxData)
Bases == -1..MaxBase
Sizes == -1..MaxSize
Addrs == -1..(MaxBase + MaxSize + 1)
Offsets == -1..MaxLen
Lengths == -1..MaxLen
None == "None"
Names == {None}
Layouts == {<<"B">>, <<"H">>}
ValueSet == {<<>>, <<1>>, <<256>>}

(* ------------------------- outcomes of a call -------------------------- *)

\* A call returns bytes (or a tuple of values), an integer, a segment (its
\* index in MemoryPatcher.segments, 0 for None), or raises an exception.
Res(kind, bytes, num, seg) == [kind |-> kind, bytes |-> bytes, num |-> num, seg |-> seg]
OkNone == Res("ok", <<>>, 0, 0)
OkBytes(b) == Res("ok", b, 0, 0)
OkInt(n) == Res("ok", <<>>, n, 0)
OkSeg(i) == Res("ok", <<>>, 0, i)
OkSegInt(i, n) == Res("ok", <<>>, n, i)
Raise(kind) == Res(kind, <<>>, 0, 0)
IsOk(r) == r.kind = "ok"

(* --------------------------- Python slicing ---------------------------- *)

\* A slice index clamps to [0, n]; a negative one counts from the end.
SliceIndex(i, n) == IF i < 0 THEN Max(i + n, 0) ELSE Min(i, n)

\* s[a:b], s[:b] and s[a:]
Slice(s, a, b) == SubSeq(s, SliceIndex(a, Len(s)) + 1, SliceIndex(b, Len(s)))
SliceTo(s, b) == SubSeq(s, 1, SliceIndex(b, Len(s)))
SliceFrom(s, a) == SubSeq(s, SliceIndex(a, Len(s)) + 1, Len(s))

(* ------------------------- struct.Struct codec ------------------------- *)

\* Little-endian fixed layouts of unsigned fields: "B" is one byte, "H" two.
FieldSize(c) == IF c = "B" THEN 1 ELSE 2
FieldFits(c, v) == IF c = "B" THEN v \in 0..255 ELSE v \in 0..65535
FieldBytes(c, v) == IF c = "B" THEN <<v>> ELSE <<v % 256, v \div 256>>

RECURSIVE StructSize(_)
StructSize(s) == IF s = <<>> THEN 0 ELSE FieldSize(Head(s)) + StructSize(Tail(s))

RECURSIVE PackFields(_, _)
PackFields(s, values) ==
    IF s = <<>> THEN <<>>
    ELSE FieldBytes(Head(s), Head(values)) \o PackFields(Tail(s), Tail(values))

\* s.pack(*values): struct.error on a wrong argument count or a value out of range
StructPack(s, values) ==
    IF Len(values) # Len(s) \/ \E k \in 1..Len(s) : ~FieldFits(s[k], values[k])
    THEN Raise("struct.error")
    ELSE OkBytes(PackFields(s, values))

RECURSIVE UnpackFields(_, _)
UnpackFields(s, bytes) ==
    IF s = <<>> THEN <<>>
    ELSE IF Head(s) = "B"
         THEN <<bytes[1]>> \o UnpackFields(Tail(s), Tail(bytes))
         ELSE <<bytes[1] + 256 * bytes[2]>> \o UnpackFields(Tail(s), Tail(Tail(bytes)))

\* s.unpack(buffer): struct.error unless the buffer has exactly s.size bytes
StructUnpack(s, bytes) ==
    IF Len(bytes) # StructSize(s) THEN Raise("struct.error")
    ELSE OkBytes(UnpackFields(s, bytes))

(* ------------------------------- Segment ------------------------------- *)

Segment_init(base, size, writeable, name) ==
    [base |-> base, size |-> size, end |-> base + size,
     writeable |-> writeable, name |-> name, data |-> <<>>]

Out(seg, res) == [seg |-> seg, res |-> res]

\* mutant: the upper end of the range taken as exclusive
Segment_addr_to_segment_offset_ExclusiveEnd(seg, addr) ==
    IF seg.base > addr \/ addr >= seg.base + seg.size
    THEN Raise("InvalidAddressException")
    ELSE OkInt(addr - seg.base)

Segment_addr_to_segment_offset(seg, addr) ==
    IF seg.base > addr \/ addr > seg.base + seg.size
    THEN Raise("InvalidAddressException")
    ELSE OkInt(addr - seg.base)

\* mutant: the buffer assigned before the size is checked
Segment_load_stream_AssignFirst(seg, stream) ==
    IF Len(stream) > seg.size
    THEN Out([seg EXCEPT !.data = stream], Raise("IndexError"))
    ELSE Out([seg EXCEPT !.data = stream], OkNone)

Segment_load_stream(seg, stream) ==
    IF Len(stream) > seg.size
    THEN Out(seg, Raise("IndexError"))
    ELSE Out([seg EXCEPT !.data = stream], OkNone)

Segment_save_stream(seg) == Out(seg, OkBytes(seg.data))

\* mutant: the upper end of the range taken as exclusive
Segment_contains_ExclusiveEnd(seg, addr) == seg.base <= addr /\ addr < seg.end

Segment_contains(seg, addr) == seg.base <= addr /\ addr <= seg.end

Segment_check_offset(seg, offset) ==
    IF ~(0 <= offset /\ offset < Len(seg.data)) THEN Raise("IndexError") ELSE OkNone

Segment_check_offset_len(seg, offset, length) ==
    IF ~IsOk(Segment_check_offset(seg, offset)) THEN Segment_check_offset(seg, offset)
    ELSE IF ~(offset + length <= Len(seg.data)) THEN Raise("IndexError")
    ELSE OkNone

\* mutant: the declared size grown with the buffer
Segment_update_data_Resizes(seg, new_data) ==
    IF ~seg.writeable THEN Out(seg, Raise("WriteException"))
    ELSE Out([seg EXCEPT !.data = new_data,
                         !.size = Max(seg.size, Len(new_data)),
                         !.end = seg.base + Max(seg.size, Len(new_data))], OkNone)

\* mutant: no writeable check
Segment_update_data_Unchecked(seg, new_data) ==
    Out([seg EXCEPT !.data = new_data], OkNone)

\* mutant: the buffer assigned before the writeable check
Segment_update_data_AssignFirst(seg, new_data) ==
    IF ~seg.writeable THEN Out([seg EXCEPT !.data = new_data], Raise("WriteException"))
    ELSE Out([seg EXCEPT !.data = new_data], OkNone)

Segment_update_data(seg, new_data) ==
    IF ~seg.writeable THEN Out(seg, Raise("WriteException"))
    ELSE Out([seg EXCEPT !.data = new_data], OkNone)

Segment_read(seg, offset, length) ==
    IF ~IsOk(Segment_check_offset_len(seg, offset, length))
    THEN Out(seg, Segment_check_offset_len(seg, offset, length))
    ELSE Out(seg, OkBytes(Slice(seg.data, offset, offset + length)))

\* mutant: the replaced bytes read after the update
Segment_write_ReturnsNew(seg, offset, data) ==
    IF ~IsOk(Segment_check_offset_len(seg, offset, Len(data)))
    THEN Out(seg, Segment_check_offset_len(seg, offset, Len(data)))
    ELSE LET upd == Segment_update_data(seg,
                        SliceTo(seg.data, offset) \o data
                            \o SliceFrom(seg.data, offset + Len(data)))
         IN  IF ~IsOk(upd.res) THEN upd
             ELSE Out(upd.seg, OkBytes(Slice(upd.seg.data, offset, offset + Len(data))))

Segment_write(seg, offset, data) ==
    IF ~IsOk(Segment_check_offset_len(seg, offset, Len(data)))
    THEN Out(seg, Segment_check_offset_len(seg, offset, Len(data)))
    ELSE LET orig_data == Slice(seg.data, offset, offset + Len(data))
             upd == Segment_update_data(seg,
                        SliceTo(seg.data, offset) \o data
                            \o SliceFrom(seg.data, offset + Len(data)))
         IN  IF ~IsOk(upd.res) THEN upd ELSE Out(upd.seg, OkBytes(orig_data))

\* mutant: the bytes appended instead of spliced in at offset
Segment_insert_AtEnd(seg, offset, data) ==
    IF ~(0 <= offset /\ offset <= Len(seg.data))
    THEN Out(seg, Raise("IndexError"))
    ELSE LET upd == Segment_update_data(seg, seg.data \o data)
         IN  IF ~IsOk(upd.res) THEN upd ELSE Out(upd.seg, OkInt(offset + Len(data)))

Segment_insert(seg, offset, data) ==
    IF ~(0 <= offset /\ offset <= Len(seg.data))
    THEN Out(seg, Raise("IndexError"))
    ELSE LET upd == Segment_update_data(seg,
                        SliceTo(seg.data, offset) \o data \o SliceFrom(seg.data, offset))
         IN  IF ~IsOk(upd.res) THEN upd ELSE Out(upd.seg, OkInt(offset + Len(data)))

Segment_cut(seg, offset, length) ==
    IF ~IsOk(Segment_check_offset_len(seg, offset, length))
    THEN Out(seg, Segment_check_offset_len(seg, offset, length))
    ELSE LET orig_data == Slice(seg.data, offset, offset + length)
             upd == Segment_update_data(seg,
                        SliceTo(seg.data, offset) \o SliceFrom(seg.data, offset + length))
         IN  IF ~IsOk(upd.res) THEN upd ELSE Out(upd.seg, OkBytes(orig_data))

Segment_read_struct(seg, offset, s) ==
    LET rd == Segment_read(seg, offset, StructSize(s))
    IN  IF ~IsOk(rd.res) THEN rd ELSE Out(seg, StructUnpack(s, rd.res.bytes))

\* the packed arguments are (offset, *values)
Segment_write_struct(seg, offset, s, values) ==
    LET packed == StructPack(s, <<offset>> \o values)
    IN  IF ~IsOk(packed) THEN Out(seg, packed)
        ELSE Segment_write(seg, offset, packed.bytes)

Segment_insert_struct(seg, offset, s, values) ==
    LET packed == StructPack(s, values)
    IN  IF ~IsOk(packed) THEN Out(seg, packed)
        ELSE Segment_insert(seg, offset, packed.bytes)

(* ---------------------------- MemoryPatcher ---------------------------- *)

MOut(segs, res) == [segs |-> segs, res |-> res]

\* the for loop of get_segment, from index i on
RECURSIVE GetSegmentFrom(_, _, _)
GetSegmentFrom(segs, i, addr) ==
    IF i > Len(segs) THEN 0
    ELSE IF Segment_contains(segs[i], addr) THEN i
    ELSE GetSegmentFrom(segs, i + 1, addr)

MemoryPatcher_get_segment(segs, addr) == OkSeg(GetSegmentFrom(segs, 1, addr))

RECURSIVE GetSegmentByNameFrom(_, _, _)
GetSegmentByNameFrom(segs, i, name) ==
    IF i > Len(segs) THEN 0
    ELSE IF segs[i].name = name THEN i
    ELSE GetSegmentByNameFrom(segs, i + 1, name)

MemoryPatcher_get_segment_by_name(segs, name) == OkSeg(GetSegmentByNameFrom(segs, 1, name))

MemoryPatcher_addr_to_segment_offset(segs, addr) ==
    LET segment == MemoryPatcher_get_segment(segs, addr).seg
    IN  IF segment = 0 THEN Raise("InvalidAddressException")
        ELSE LET o == Segment_addr_to_segment_offset(segs[segment], addr)
             IN  IF ~IsOk(o) THEN o ELSE OkSegInt(segment, o.num)

MemoryPatcher_add_segment(segs, base_addr, size, writeable, name) ==
    IF base_addr < 0 \/ size < 0 THEN MOut(segs, Raise("ValueError"))
    ELSE MOut(Append(segs, Segment_init(base_addr, size, writeable, name)),
              OkSeg(Len(segs) + 1))

MemoryPatcher_getitem(segs, address) ==
    LET seg == MemoryPatcher_get_segment(segs, address).seg
    IN  IF seg = 0 THEN Raise("InvalidAddressException") ELSE OkSeg(seg)

\* seg = self[addr]; seg.addr_to_segment_offset(addr): the segment and the offset
\* a method is then called with
SegmentAndOffset(segs, addr) ==
    LET got == MemoryPatcher_getitem(segs, addr)
    IN  IF ~IsOk(got) THEN got
        ELSE LET o == Segment_addr_to_segment_offset(segs[got.seg], addr)
             IN  IF ~IsOk(o) THEN o ELSE OkSegInt(got.seg, o.num)

\* the effect on self.segments of a method called on segs[i]
Called(segs, i, out) == MOut([segs EXCEPT ![i] = out.seg], out.res)

MemoryPatcher_read(segs, addr, length) ==
    LET at == SegmentAndOffset(segs, addr)
    IN  IF ~IsOk(at) THEN MOut(segs, at)
        ELSE Called(segs, at.seg, Segment_read(segs[at.seg], at.num, length))

MemoryPatcher_write(segs, addr, data) ==
    LET at == SegmentAndOffset(segs, addr)
    IN  IF ~IsOk(at) THEN MOut(segs, at)
        ELSE Called(segs, at.seg, Segment_write(segs[at.seg], at.num, data))

\* mutant: the cursor returned as an absolute address
MemoryPatcher_insert_Absolute(segs, addr, data) ==
    LET at == SegmentAndOffset(segs, addr)
    IN  IF ~IsOk(at) THEN MOut(segs, at)
        ELSE LET out == Segment_insert(segs[at.seg], at.num, data)
             IN  IF ~IsOk(out.res) THEN Called(segs, at.seg, out)
                 ELSE Called(segs, at.seg, Out(out.seg, OkInt(addr + Len(data))))

MemoryPatcher_insert(segs, addr, data) ==
    LET at == SegmentAndOffset(segs, addr)
    IN  IF ~IsOk(at) THEN MOut(segs, at)
        ELSE Called(segs, at.seg, Segment_insert(segs[at.seg], at.num, data))

MemoryPatcher_cut(segs, addr, length) ==
    LET at == SegmentAndOffset(segs, addr)
    IN  IF ~IsOk(at) THEN MOut(segs, at)
        ELSE Called(segs, at.seg, Segment_cut(segs[at.seg], at.num, length))

MemoryPatcher_read_struct(segs, addr, s) ==
    LET at == SegmentAndOffset(segs, addr)
    IN  IF ~IsOk(at) THEN MOut(segs, at)
        ELSE Called(segs, at.seg, Segment_read_struct(segs[at.seg], at.num, s))

MemoryPatcher_write_struct(segs, addr, s, values) ==
    LET at == SegmentAndOffset(segs, addr)
    IN  IF ~IsOk(at) THEN MOut(segs, at)
        ELSE Called(segs, at.seg, Segment_write_struct(segs[at.seg], at.num, s, values))

MemoryPatcher_insert_struct(segs, addr, s, values) ==
    LET at == SegmentAndOffset(segs, addr)
    IN  IF ~IsOk(at) THEN MOut(segs, at)
        ELSE Called(segs, at.seg, Segment_insert_struct(segs[at.seg], at.num, s, values))

(* ------------------------------- actions ------------------------------- *)

\* The record of a call: target 0 is a call on the MemoryPatcher (addr is an
\* absolute address), target i > 0 a call on segments[i] itself (addr is the
\* segment offset, or the address given to addr_to_segment_offset).
Call(op, target, addr, data, length, layout, values, res) ==
    [op |-> op, target |-> target, addr |-> addr, data |-> data, length |-> length,
     layout |-> layout, values |-> values, res |-> res, pre |-> segments]

Idle ==
    [op |-> "idle", target |-> 0, addr |-> 0, data |-> <<>>, length |-> 0,
     layout |-> <<>>, values |-> <<>>, res |-> OkNone, pre |-> <<>>]

\* The bound on buffer growth: a lone segment holds up to MaxLen bytes, each
\* of several segments up to MaxLen - 1.
BufCap(segs) == IF Len(segs) <= 1 THEN MaxLen ELSE MaxLen - 1

Commit(segs, call) ==
    /\ last = Idle
    /\ \A i \in 1..Len(segs) : Len(segs[i].data) <= BufCap(segs)
    /\ segments' = segs
    /\ last' = call

OnSegment(i, out, call) == Commit([segments EXCEPT ![i] = out.seg], call)

Init ==
    /\ segments = <<>>
    /\ last = Idle

SegIdx == 1..Len(segments)

AddSegment ==
    \E b \in Bases, sz \in Sizes, w \in BOOLEAN, nm \in Names :
        /\ Len(segments) < MaxSegs
        /\ LET out == MemoryPatcher_add_segment(segments, b, sz, w, nm)
           IN  Commit(out.segs, Call("add_segment", 0, b, <<>>, sz, <<>>, <<>>, out.res))

SegAddrToSegmentOffset ==
    \E i \in SegIdx, a \in Addrs :
        Commit(segments, Call("addr_to_segment_offset", i, a, <<>>, 0, <<>>, <<>>,
                              Segment_addr_to_segment_offset(segments[i], a)))

SegLoadStream ==
    \E i \in SegIdx, d \in DataSet :
        LET out == Segment_load_stream(segments[i], d)
        IN  OnSegment(i, out, Call("load_stream", i, 0, d, 0, <<>>, <<>>, out.res))

SegSaveStream ==
    \E i \in SegIdx :
        LET out == Segment_save_stream(segments[i])
        IN  OnSegment(i, out, Call("save_stream", i, 0, <<>>, 0, <<>>, <<>>, out.res))

SegRead ==
    \E i \in SegIdx, o \in Offsets, n \in Lengths :
        LET out == Segment_read(segments[i], o, n)
        IN  OnSegment(i, out, Call("read", i, o, <<>>, n, <<>>, <<>>, out.res))

SegWrite ==
    \E i \in SegIdx, o \in Offsets, d \in DataSet :
        LET out == Segment_write(segments[i], o, d)
        IN  OnSegment(i, out, Call("write", i, o, d, 0, <<>>, <<>>, out.res))

SegInsert ==
    \E i \in SegIdx, o \in Offsets, d \in DataSet :
        LET out == Segment_insert(segments[i], o, d)
        IN  OnSegment(i, out, Call("insert", i, o, d, 0, <<>>, <<>>, out.res))

SegCut ==
    \E i \in SegIdx, o \in Offsets, n \in Lengths :
        LET out == Segment_cut(segments[i], o, n)
        IN  OnSegment(i, out, Call("cut", i, o, <<>>, n, <<>>, <<>>, out.res))

SegReadStruct ==
    \E i \in SegIdx, o \in Offsets, s \in Layouts :
        LET out == Segment_read_struct(segments[i], o, s)
        IN  OnSegment(i, out, Call("read_struct", i, o, <<>>, 0, s, <<>>, out.res))

SegWriteStruct ==
    \E i \in SegIdx, o \in Offsets, s \in Layouts, v \in ValueSet :
        LET out == Segment_write_struct(segments[i], o, s, v)
        IN  OnSegment(i, out, Call("write_struct", i, o, <<>>, 0, s, v, out.res))

SegInsertStruct ==
    \E i \in SegIdx, o \in Offsets, s \in Layouts, v \in ValueSet :
        LET out == Segment_insert_struct(segments[i], o, s, v)
        IN  OnSegment(i, out, Call("insert_struct", i, o, <<>>, 0, s, v, out.res))

GetSegment ==
    \E a \in Addrs :
        Commit(segments, Call("get_segment", 0, a, <<>>, 0, <<>>, <<>>,
                              MemoryPatcher_get_segment(segments, a)))

GetSegmentByName ==
    \E nm \in Names :
        Commit(segments, Call("get_segment_by_name", 0, 0, <<>>, 0, <<>>, <<nm>>,
                              MemoryPatcher_get_segment_by_name(segments, nm)))

AddrToSegmentOffset ==
    \E a \in Addrs :
        Commit(segments, Call("addr_to_segment_offset", 0, a, <<>>, 0, <<>>, <<>>,
                              MemoryPatcher_addr_to_segment_offset(segments, a)))

Read ==
    \E a \in Addrs, n \in Lengths :
        LET out == MemoryPatcher_read(segments, a, n)
        IN  Commit(out.segs, Call("read", 0, a, <<>>, n, <<>>, <<>>, out.res))

Write ==
    \E a \in Addrs, d \in DataSet :
        LET out == MemoryPatcher_write(segments, a, d)
        IN  Commit(out.segs, Call("write", 0, a, d, 0, <<>>, <<>>, out.res))

Insert ==
    \E a \in Addrs, d \in DataSet :
        LET out == MemoryPatcher_insert(segments, a, d)
        IN  Commit(out.segs, Call("insert", 0, a, d, 0, <<>>, <<>>, out.res))

Cut ==
    \E a \in Addrs, n \in Lengths :
        LET out == MemoryPatcher_cut(segments, a, n)
        IN  Commit(out.segs, Call("cut", 0, a, <<>>, n, <<>>, <<>>, out.res))

ReadStruct ==
    \E a \in Addrs, s \in Layouts :
        LET out == MemoryPatcher_read_struct(segments, a, s)
        IN  Commit(out.segs, Call("read_struct", 0, a, <<>>, 0, s, <<>>, out.res))

WriteStruct ==
    \E a \in Addrs, s \in Layouts, v \in ValueSet :
        LET out == MemoryPatcher_write_struct(segments, a, s, v)
        IN  Commit(out.segs, Call("write_struct", 0, a, <<>>, 0, s, v, out.res))

InsertStruct ==
    \E a \in Addrs, s \in Layouts, v \in ValueSet :
        LET out == MemoryPatcher_insert_struct(segments, a, s, v)
        IN  Commit(out.segs, Call("insert_struct", 0, a, <<>>, 0, s, v, out.res))

\* the call has returned: the caller takes its outcome
Return ==
    /\ last # Idle
    /\ last' = Idle
    /\ UNCHANGED segments

Next ==
    \/ AddSegment
    \/ SegAddrToSegmentOffset
    \/ SegLoadStream
    \/ SegSaveStream
    \/ SegRead
    \/ SegWrite
    \/ SegInsert
    \/ SegCut
    \/ SegReadStruct
    \/ SegWriteStruct
    \/ SegInsertStruct
    \/ GetSegment
    \/ GetSegmentByName
    \/ AddrToSegmentOffset
    \/ Read
    \/ Write
    \/ Insert
    \/ Cut
    \/ ReadStruct
    \/ WriteStruct
    \/ InsertStruct
    \/ Return

Spec == Init /\ [][Next]_vars

\* A Segment constructed on its own, outside any MemoryPatcher, and the calls
\* made on it.
InitSeg ==
    /\ \E b \in 0..MaxBase, sz \in 0..MaxSize, w \in BOOLEAN, nm \in Names :
           segments = <<Segment_init(b, sz, w, nm)>>
    /\ last = Idle

NextSeg ==
    \/ SegAddrToSegmentOffset
    \/ SegLoadStream
    \/ SegSaveStream
    \/ SegRead
    \/ SegWrite
    \/ SegInsert
    \/ SegCut
    \/ SegReadStruct
    \/ SegWriteStruct
    \/ SegInsertStruct
    \/ Return

SegSpec == InitSeg /\ [][NextSeg]_vars

(* ======================= properties of the calls ======================= *)

\* the segment a direct call was made on, before and after the call
Direct(op) == last.op = op /\ last.target > 0
PreSeg == last.pre[last.target]
PostSeg == segments[last.target]

\* the bounds rule of read, write and cut, and the one of insert
InBounds(seg, offset, length) ==
    0 <= offset /\ offset < Len(seg.data) /\ offset + length <= Len(seg.data)
InsertBounds(seg, offset) == 0 <= offset /\ offset <= Len(seg.data)

\* C1 as stated: every write, insert or cut on a non-writable segment raises
\* WriteException (NotWritable), whatever its arguments, and leaves the
\* buffer unchanged.
C1_AlwaysNotWritable ==
    ((Direct("write") \/ Direct("insert") \/ Direct("cut")) /\ ~PreSeg.writeable)
        => (last.res.kind = "WriteException" /\ PostSeg.data = PreSeg.data)

\* C1 amended: every write, insert or cut on a non-writable segment fails and
\* leaves the buffer unchanged; it raises WriteException when its arguments
\* pass the operation's bounds check and IndexError (OutOfRange) when they do
\* not, the bounds being checked first.
C1_NotWritableAfterBounds ==
    ((Direct("write") \/ Direct("insert") \/ Direct("cut")) /\ ~PreSeg.writeable)
        => /\ PostSeg = PreSeg
           /\ last.res.kind =
                IF \/ Direct("write") /\ InBounds(PreSeg, last.addr, Len(last.data))
                   \/ Direct("cut") /\ InBounds(PreSeg, last.addr, last.length)
                   \/ Direct("insert") /\ InsertBounds(PreSeg, last.addr)
                THEN "WriteException" ELSE "IndexError"

C1_Witness ==
    /\ Direct("cut")
    /\ ~PreSeg.writeable
    /\ PreSeg.data # <<>>
    /\ last.res.kind = "WriteException"

\* C2: a call that ends in an exception of any kind leaves the buffer of
\* every segment as it was before the call.
C2_FailedCallChangesNothing ==
    (last # Idle /\ ~IsOk(last.res))
        => /\ Len(segments) = Len(last.pre)
           /\ \A i \in 1..Len(segments) : segments[i].data = last.pre[i].data

C2_Witness ==
    /\ last.op = "insert"
    /\ last.target = 0
    /\ last.data # <<>>
    /\ last.res.kind = "WriteException"
    /\ \E i \in 1..Len(segments) : segments[i].data # <<>>

\* the insert of C3: a direct insert on a writable segment at an offset in
\* [0, len(buffer)]
C3_Case == Direct("insert") /\ PreSeg.writeable /\ InsertBounds(PreSeg, last.addr)

C3_RoundTrip ==
    /\ IsOk(last.res)
    /\ Len(PostSeg.data) = Len(PreSeg.data) + Len(last.data)
    /\ Segment_cut(PostSeg, last.addr, Len(last.data)) = Out(PreSeg, OkBytes(last.data))

\* C3 as stated: insert(offset, data) at any offset in [0, len(buffer)] with
\* any data, the empty string included, succeeds and grows the buffer by
\* len(data), and cut(offset, len(data)) then succeeds, returns data and
\* restores the buffer.
C3_RoundTripAnyData == C3_Case => C3_RoundTrip

\* C3 amended: the round trip holds unless data is empty and offset is the
\* end of the buffer; in that one case the insert succeeds and changes
\* nothing, and cut(offset, 0) raises IndexError (OutOfRange) and leaves the
\* buffer as it was.
C3_RoundTripUnlessEmptyAtEnd ==
    C3_Case =>
        IF last.data = <<>> /\ last.addr = Len(PreSeg.data)
        THEN /\ IsOk(last.res)
             /\ PostSeg = PreSeg
             /\ Segment_cut(PostSeg, last.addr, 0) = Out(PreSeg, Raise("IndexError"))
        ELSE C3_RoundTrip

C3_Witness ==
    /\ C3_Case
    /\ PreSeg.data # <<>>
    /\ last.addr = Len(PreSeg.data)
    /\ Len(last.data) = MaxData
    /\ IsOk(last.res)

\* C4: write_struct(offset, s, values) has the outcome and the resulting
\* buffer of write(offset, s.pack(values)), the codec applied to exactly the
\* caller's values.
C4_WriteStructIsWriteOfPack ==
    Direct("write_struct") =>
        LET enc == StructPack(last.layout, last.values)
            expected == IF IsOk(enc) THEN Segment_write(PreSeg, last.addr, enc.bytes)
                        ELSE Out(PreSeg, enc)
        IN  last.res = expected.res /\ PostSeg = expected.seg

\* C5: Segment.addr_to_segment_offset(addr) returns addr - base when
\* base <= addr <= base + size and raises InvalidAddressException otherwise,
\* whatever the length of the buffer.
C5_AddrToSegmentOffset ==
    Direct("addr_to_segment_offset") =>
        IF PreSeg.base <= last.addr /\ last.addr <= PreSeg.base + PreSeg.size
        THEN last.res = OkInt(last.addr - PreSeg.base)
        ELSE last.res = Raise("InvalidAddressException")

C5_Witness ==
    /\ Direct("addr_to_segment_offset")
    /\ last.addr = PreSeg.base + PreSeg.size
    /\ PreSeg.size > 0
    /\ Len(PreSeg.data) > PreSeg.size
    /\ IsOk(last.res)

\* the segments whose inclusive range [base, base + size] holds addr, and the
\* one of lowest insertion index among them (0 when there is none)
Containing(segs, addr) ==
    {i \in 1..Len(segs) : segs[i].base <= addr /\ addr <= segs[i].base + segs[i].size}
FirstContaining(segs, addr) ==
    IF Containing(segs, addr) = {} THEN 0
    ELSE CHOOSE i \in Containing(segs, addr) : \A j \in Containing(segs, addr) : i <= j

\* C6: get_segment(addr) returns None when no segment's inclusive range holds
\* addr and otherwise the segment of lowest insertion index whose range does;
\* MemoryPatcher.addr_to_segment_offset returns that segment with
\* addr - base, and raises InvalidAddressException exactly when there is none.
C6_GetSegmentFirstMatch ==
    LET first == FirstContaining(last.pre, last.addr)
    IN  /\ last.op = "get_segment" => last.res = OkSeg(first)
        /\ (last.op = "addr_to_segment_offset" /\ last.target = 0) =>
               IF first = 0 THEN last.res = Raise("InvalidAddressException")
               ELSE last.res = OkSegInt(first, last.addr - last.pre[first].base)

C6_Witness ==
    /\ last.op = "addr_to_segment_offset"
    /\ last.target = 0
    /\ Cardinality(Containing(last.pre, last.addr)) = 2
    /\ last.pre[1].base # last.pre[2].base
    /\ last.addr = last.pre[1].base + last.pre[1].size
    /\ last.res.seg = 1

\* C7: on a writable segment, write(offset, data) with 0 <= offset <
\* len(buffer) and offset + len(data) <= len(buffer) returns the bytes that
\* were at [offset, offset + len(data)), keeps the buffer's length and every
\* byte outside that range, and read(offset, len(data)) then returns data.
C7_WriteReturnsOldBytes ==
    (Direct("write") /\ PreSeg.writeable /\ InBounds(PreSeg, last.addr, Len(last.data)))
        => /\ last.res = OkBytes(SubSeq(PreSeg.data, last.addr + 1,
                                        last.addr + Len(last.data)))
           /\ Len(PostSeg.data) = Len(PreSeg.data)
           /\ \A k \in 1..Len(PreSeg.data) :
                  (k <= last.addr \/ k > last.addr + Len(last.data))
                      => PostSeg.data[k] = PreSeg.data[k]
           /\ Segment_read(PostSeg, last.addr, Len(last.data)).res = OkBytes(last.data)

C7_Witness ==
    /\ Direct("write")
    /\ PreSeg.writeable
    /\ Len(PreSeg.data) = 3
    /\ last.addr = 1
    /\ Len(last.data) = 1
    /\ last.res.bytes # last.data
    /\ IsOk(last.res)

\* C8: load_stream with data longer than size raises IndexError
\* (CapacityExceeded) and leaves the buffer as it was; with len(data) <= size
\* it succeeds and the buffer is data, which save_stream then returns.
C8_LoadStream ==
    Direct("load_stream") =>
        IF Len(last.data) > PreSeg.size
        THEN last.res = Raise("IndexError") /\ PostSeg = PreSeg
        ELSE /\ IsOk(last.res)
             /\ PostSeg.data = last.data
             /\ Segment_save_stream(PostSeg).res = OkBytes(last.data)

C8_Witness ==
    /\ Direct("load_stream")
    /\ Len(last.data) > PreSeg.size
    /\ PreSeg.data # <<>>
    /\ PostSeg.data = PreSeg.data
    /\ last.res.kind = "IndexError"

\* the Segment method a call on the MemoryPatcher corresponds to
SegmentMethod(call, seg, offset) ==
    CASE call.op = "read" -> Segment_read(seg, offset, call.length)
      [] call.op = "write" -> Segment_write(seg, offset, call.data)
      [] call.op = "insert" -> Segment_insert(seg, offset, call.data)
      [] call.op = "cut" -> Segment_cut(seg, offset, call.length)
      [] call.op = "read_struct" -> Segment_read_struct(seg, offset, call.layout)
      [] call.op = "write_struct" ->
             Segment_write_struct(seg, offset, call.layout, call.values)
      [] call.op = "insert_struct" ->
             Segment_insert_struct(seg, offset, call.layout, call.values)

\* C9: read, write, insert, cut and the struct variants at an address addr
\* return what the Segment method returns on the first segment containing
\* addr with offset addr - base, leave the buffers it leaves, and raise what
\* it raises; with no segment containing addr they raise
\* InvalidAddressException; insert returns (addr - base) + len(data).
C9_DelegatesToFirstSegment ==
    (last.target = 0 /\ last.op \in {"read", "write", "insert", "cut", "read_struct",
                                     "write_struct", "insert_struct"})
        => LET first == FirstContaining(last.pre, last.addr)
           IN  IF first = 0
               THEN last.res = Raise("InvalidAddressException") /\ segments = last.pre
               ELSE LET seg == last.pre[first]
                        out == SegmentMethod(last, seg, last.addr - seg.base)
                    IN  /\ last.res = out.res
                        /\ segments = [last.pre EXCEPT ![first] = out.seg]
                        /\ (last.op = "insert" /\ IsOk(last.res))
                               => last.res.num = (last.addr - seg.base) + Len(last.data)

C9_Witness ==
    /\ last.op = "insert"
    /\ last.target = 0
    /\ IsOk(last.res)
    /\ Len(last.data) = 1
    /\ Cardinality(Containing(last.pre, last.addr)) = 2
    /\ last.pre[1].base = 1
    /\ last.addr = 2
    /\ last.res.num = 2
    /\ segments[2] = last.pre[2]

\* C10: a cut(offset, length) that succeeds on a writable segment returns
\* exactly the length bytes at [offset, offset + length), leaves the old
\* buffer without them, and never leaves the buffer longer; cut raises
\* IndexError (OutOfRange) whenever offset is outside [0, len(buffer)) or
\* offset + length > len(buffer).
C10_CutRemovesLengthBytes ==
    (Direct("cut") /\ PreSeg.writeable)
        => /\ IsOk(last.res) =>
                  /\ Len(last.res.bytes) = last.length
                  /\ last.res.bytes = SubSeq(PreSeg.data, last.addr + 1,
                                             last.addr + last.length)
                  /\ PostSeg.data = SubSeq(PreSeg.data, 1, last.addr)
                                      \o SubSeq(PreSeg.data, last.addr + last.length + 1,
                                                Len(PreSeg.data))
                  /\ Len(PostSeg.data) <= Len(PreSeg.data)
           /\ ~InBounds(PreSeg, last.addr, last.length) => last.res = Raise("IndexError")

\* C11 as stated: whatever calls were made, the buffer of a segment
\* constructed with writeable = False is still the buffer it was constructed
\* with, the empty one.
C11_NonWritableKeepsInitialBuffer ==
    \A i \in 1..Len(segments) : ~segments[i].writeable => segments[i].data = <<>>

\* C11 amended: no write, insert, cut, write_struct or insert_struct, direct
\* or through the MemoryPatcher (nor any other call but load_stream), changes
\* the buffer of a non-writable segment; load_stream does not test the flag,
\* and with len(data) <= size it replaces the buffer of a non-writable segment
\* as it does that of a writable one.
C11_OnlyLoadChangesNonWritable ==
    /\ (last # Idle /\ last.op # "load_stream") =>
           \A i \in 1..Len(last.pre) :
               ~last.pre[i].writeable => segments[i] = last.pre[i]
    /\ (Direct("load_stream") /\ ~PreSeg.writeable /\ Len(last.data) <= PreSeg.size) =>
           (IsOk(last.res) /\ PostSeg.data = last.data)

C11_Witness ==
    /\ last.op = "write_struct"
    /\ last.target = 0
    /\ last.res.kind = "WriteException"
    /\ \E i \in 1..Len(segments) :
           /\ ~segments[i].writeable
           /\ segments[i].data # <<>>
           /\ FirstContaining(last.pre, last.addr) = i

\* a segment's base, size, end, writeable flag and name
Geometry(seg) == [seg EXCEPT !.data = <<>>]

\* C12: a read, write, insert or cut on the MemoryPatcher at an address addr,
\* successful or not, changes at most the buffer of the first segment
\* containing addr: every other buffer, every segment's base, size, writeable
\* flag and name and the list of segments are as before, and get_segment
\* returns the same segment for every address, also when a buffer has grown
\* past its declared size.
C12_Frame ==
    (last.target = 0 /\ last.op \in {"read", "write", "insert", "cut"})
        => /\ Len(segments) = Len(last.pre)
           /\ \A i \in 1..Len(last.pre) :
                  /\ Geometry(segments[i]) = Geometry(last.pre[i])
                  /\ i # FirstContaining(last.pre, last.addr)
                         => segments[i].data = last.pre[i].data
           /\ \A a \in Addrs :
                  MemoryPatcher_get_segment(segments, a)
                      = MemoryPatcher_get_segment(last.pre, a)

C12_Witness ==
    /\ last.op = "insert"
    /\ last.target = 0
    /\ IsOk(last.res)
    /\ Len(segments) = 2
    /\ FirstContaining(last.pre, last.addr) = 2
    /\ Len(segments[2].data) > segments[2].size
    /\ Len(last.pre[2].data) <= last.pre[2].size
    /\ segments[1].data # <<>>
    /\ segments[1] = last.pre[1]

====
